---- MODULE Spec2Model ----
(***************************************************************************)
(* Model of the caller-attribution core (caller.go) and of the glog-style  *)
(* admission filter (GlogHandler) of github.com/luxfi/log.                 *)
(*                                                                         *)
(* Go strings are TLA+ strings; the strings.* helpers used by the code are *)
(* defined below character by character, so that prefix, substring and     *)
(* basename tests are computed as the Go code computes them.               *)
(***************************************************************************)
EXTENDS Integers, Sequences, FiniteSets, TLC

VARIABLES
    internalPkgList,  \* caller.go: the atomic.Value holding the published []string
    heap,             \* the backing arrays of the []string values, by address
    reg,              \* per goroutine: its RegisterInternalPackages call in flight
    ncalls,           \* number of RegisterInternalPackages calls started
    registered,       \* prefixes passed to the calls that have returned
    walk,             \* the log call in flight: Check, Write, firstExternalCaller
    glog,             \* the GlogHandler objects, in order of construction
    vmaps,            \* the vmodules maps the handlers point to
    cfg,              \* the configuration call in flight: Verbosity or Vmodule
    call,             \* the logging goroutine's call in flight: Enabled or Handle
    ncfg,             \* number of Verbosity and Vmodule calls started
    levels,           \* the zap.AtomicLevel and zapcore.Level values, by address
    loggers,          \* the zapLogger objects, in order of construction
    lcall             \* the last call made on a zapLogger, with what it returned

callerVars == <<internalPkgList, heap, reg, ncalls, registered, walk>>

glogVars == <<glog, vmaps, cfg, call, ncfg>>

loggerVars == <<levels, loggers, lcall>>

vars == <<internalPkgList, heap, reg, ncalls, registered, walk, glog, vmaps, cfg, call, ncfg,
          levels, loggers, lcall>>

-----------------------------------------------------------------------------
(* Bounds of the model *)

\* RegisterInternalPackages calls started over a run
MaxRegCalls == 2
\* Verbosity and Vmodule calls started over a run
MaxCfgCalls == 2
\* GlogHandler objects: the constructed one and those derived from it
MaxHandlers == 2

-----------------------------------------------------------------------------
(* strings.* helpers of the Go standard library, as used by caller.go *)

Range(s) == {s[i] : i \in 1..Len(s)}

Min(a, b) == IF a <= b THEN a ELSE b

\* strings.HasPrefix(s, prefix)
HasPrefix(s, prefix) ==
    /\ Len(prefix) <= Len(s)
    /\ SubSeq(s, 1, Len(prefix)) = prefix

\* strings.Contains(s, substr)
Contains(s, substr) ==
    \E i \in 1..(Len(s) - Len(substr) + 1) : SubSeq(s, i, i + Len(substr) - 1) = substr

\* strings.LastIndex(s, "/"): the 0-based index of the last "/", or -1
LastIndexSlash(s) ==
    LET at == {i \in 1..Len(s) : SubSeq(s, i, i) = "/"}
    IN  IF at = {} THEN -1 ELSE (CHOOSE i \in at : \A j \in at : j <= i) - 1

-----------------------------------------------------------------------------
(* caller.go: the internal-package registry *)

\* the list stored by init()
InitPkgs == <<"github.com/luxfi/log", "go.uber.org/zap", "go.uber.org/zap/zapcore">>

\* prefixes of the two adapter layers of a host application
PkgA == "example.com/adaptera"
PkgB == "example.com/adapterb"

\* the prefix of a wrapper module whose path has a single segment
PkgShort == "applog"

\* argument lists passed to RegisterInternalPackages
RegArgs == {<< >>, <<PkgA>>, <<PkgB>>, <<PkgA, PkgB>>}

\* the calls that pass at most one prefix
RegArgsSingle == {pkgs \in RegArgs : Len(pkgs) <= 1}

\* the calls that register one wrapper: one under a domain, one without
RegArgsShort == {<<PkgA>>, <<PkgShort>>}

\* goroutines that may call RegisterInternalPackages concurrently
Registrars == {"g1", "g2"}

\* a []string value: the backing array it points to and its length
Slice(arr, len) == [arr |-> arr, len |-> len]

\* the elements a slice gives access to
Deref(s) == SubSeq(heap[s.arr], 1, s.len)

\* getInternalPkgs, lines 37-39: the elements of the list loaded now
getInternalPkgs == Deref(internalPkgList)

\* cur is the slice the call loaded and seen its elements at that moment; cp is
\* the slice the call is building
RegIdle == [pc |-> "idle", pkgs |-> << >>, cur |-> Slice(0, 0), seen |-> << >>,
            cp |-> Slice(0, 0)]

\* the slice make([]string, 0, len(cur)+len(pkgs)) returns: a new backing array
MakeInPlace(h, cur) == Slice(cur.arr, 0)
MakeSlice(h, cur) == Slice(Len(h) + 1, 0)

\* the list RegisterInternalPackages builds: cp = append(append(cp, cur...), pkgs...)
NewList(cur, pkgs) == cur \o pkgs

\* RegisterInternalPackages, lines 27-30: the empty call returns at once;
\* otherwise the current list is loaded (atomic.Value.Load)
RegisterLoadAlways(g, pkgs) ==
    /\ reg[g].pc = "idle"
    /\ ncalls < MaxRegCalls
    /\ ncalls' = ncalls + 1
    /\ reg' = [reg EXCEPT ![g] = [RegIdle EXCEPT !.pc = "l31", !.pkgs = pkgs,
                                                 !.cur = internalPkgList,
                                                 !.seen = getInternalPkgs]]
    /\ UNCHANGED <<internalPkgList, heap, registered, walk>>
    /\ UNCHANGED glogVars
    /\ UNCHANGED loggerVars
RegisterLoad(g, pkgs) ==
    /\ reg[g].pc = "idle"
    /\ ncalls < MaxRegCalls
    /\ ncalls' = ncalls + 1
    /\ IF Len(pkgs) = 0
         THEN UNCHANGED reg
         ELSE reg' = [reg EXCEPT ![g] = [RegIdle EXCEPT !.pc = "l31", !.pkgs = pkgs,
                                                        !.cur = internalPkgList,
                                                        !.seen = getInternalPkgs]]
    /\ UNCHANGED <<internalPkgList, heap, registered, walk>>
    /\ UNCHANGED glogVars
    /\ UNCHANGED loggerVars

\* RegisterInternalPackages, line 31: allocate the copy
RegisterMake(g) ==
    /\ reg[g].pc = "l31"
    /\ LET cp == MakeSlice(heap, reg[g].cur)
       IN  /\ heap' = IF cp.arr > Len(heap) THEN Append(heap, << >>) ELSE heap
           /\ reg' = [reg EXCEPT ![g].pc = "l32", ![g].cp = cp]
    /\ UNCHANGED <<internalPkgList, ncalls, registered, walk>>
    /\ UNCHANGED glogVars
    /\ UNCHANGED loggerVars

\* RegisterInternalPackages, lines 32-33: the two appends write the elements of
\* cur, read now, and pkgs into the array of cp after its first cp.len elements
RegisterAppend(g) ==
    /\ reg[g].pc = "l32"
    /\ LET cp   == reg[g].cp
           list == NewList(Deref(reg[g].cur), reg[g].pkgs)
       IN  /\ heap' = [heap EXCEPT ![cp.arr] = SubSeq(heap[cp.arr], 1, cp.len) \o list]
           /\ reg' = [reg EXCEPT ![g].pc = "l34", ![g].cp = Slice(cp.arr, cp.len + Len(list))]
    /\ UNCHANGED <<internalPkgList, ncalls, registered, walk>>
    /\ UNCHANGED glogVars
    /\ UNCHANGED loggerVars

\* RegisterInternalPackages, line 34: publish the copy (atomic.Value.Store)
RegisterStore(g) ==
    /\ reg[g].pc = "l34"
    /\ internalPkgList' = reg[g].cp
    /\ registered' = registered \cup Range(reg[g].pkgs)
    /\ reg' = [reg EXCEPT ![g] = RegIdle]
    /\ UNCHANGED <<heap, ncalls, walk>>
    /\ UNCHANGED glogVars
    /\ UNCHANGED loggerVars

-----------------------------------------------------------------------------
(* caller.go: the frame classifier *)

\* the runtime test of firstExternalCaller, line 83
isRuntimeFrame(f) ==
    Contains(f.File, "/runtime/") \/ Contains(f.Function, "runtime.")

\* the per-prefix tests of isInternalFrame, lines 137-157
matchesPkgFunctionOnly(f, p) == HasPrefix(f.Function, p)
matchesPkg(f, p) ==
    \/ HasPrefix(f.Function, p)
    \/ Contains(f.File, "/" \o p \o "@")
    \/ Contains(f.File, "/" \o p \o "/")
    \/ /\ LastIndexSlash(p) >= 0
       /\ LET moduleName == SubSeq(p, LastIndexSlash(p) + 2, Len(p))
          IN  \/ Contains(f.File, "/" \o moduleName \o "@")
              \/ Contains(f.File, moduleName \o "@")
              \/ HasPrefix(f.File, moduleName \o "/")

\* isInternalFrame with the list getInternalPkgs returned
isInternalFrameBuiltin(f, pkgs) ==
    \/ Contains(f.File, "log@v")
    \/ Contains(f.File, "github.com/luxfi/log")
    \/ HasPrefix(f.File, "log/")
isInternalFrameOnce(f, pkgs) ==
    \/ Contains(f.File, "log@v")
    \/ Cardinality({i \in 1..Len(pkgs) : matchesPkg(f, pkgs[i])}) = 1
    \/ Contains(f.File, "github.com/luxfi/log")
    \/ HasPrefix(f.File, "log/")
isInternalFrame(f, pkgs) ==
    \/ Contains(f.File, "log@v")
    \/ \E i \in 1..Len(pkgs) : matchesPkg(f, pkgs[i])
    \/ Contains(f.File, "github.com/luxfi/log")
    \/ HasPrefix(f.File, "log/")

-----------------------------------------------------------------------------
(* Stack frames (runtime.Frame) and the stacks runtime.Callers(2, pcs) captures. *)
(* A stack lists its frames innermost first; its first frame is the caller of   *)
(* firstExternalCaller, callerCore.Write.                                        *)

Frame(fn, file, line) == [Function |-> fn, File |-> file, Line |-> line]

FWrite    == Frame("github.com/luxfi/log.callerCore.Write", "/src/github.com/luxfi/log/caller.go", 60)
FZapWrite == Frame("go.uber.org/zap/zapcore.(*CheckedEntry).Write", "/mod/go.uber.org/zap@v1.27.0/zapcore/entry.go", 253)
FZapInfo  == Frame("go.uber.org/zap.(*Logger).Info", "/mod/go.uber.org/zap@v1.27.0/logger.go", 247)
FAdapterB == Frame("example.com/adapterb.Log", "/src/example.com/adapterb/b.go", 12)
FAdapterA == Frame("example.com/adaptera.Log", "/src/example.com/adaptera/a.go", 21)
FHelper   == Frame("main.logHelper", "/app/main.go", 94)
FDoLog    == Frame("main.doLogging", "/app/main.go", 99)
FMain     == Frame("main.main", "/app/main.go", 102)
FDeferred == Frame("main.cleanup", "/app/cleanup.go", 7)
FGopanic  == Frame("runtime.gopanic", "/go/src/runtime/panic.go", 770)
FRtMain   == Frame("runtime.main", "/go/src/runtime/proc.go", 283)
FGoexit   == Frame("runtime.goexit", "/go/src/runtime/asm_amd64.s", 1700)
FPkgTest  == Frame("github.com/luxfi/log.TestCallerCore_UsesExternalFrame", "/src/github.com/luxfi/log/caller_test.go", 20)
FAppTest  == Frame("example.com/app.TestRun", "/src/example.com/app/run_test.go", 31)
FTRunner  == Frame("testing.tRunner", "/go/src/testing/testing.go", 1792)
\* frames of code that lives under a registered prefix but whose function name
\* does not start with it: a package vendored in the application's tree, and a
\* package main of a module in the module cache
FVendorB  == Frame("example.com/app/vendor/example.com/adapterb.Log", "/src/example.com/app/vendor/example.com/adapterb/b.go", 12)
FCmdA     == Frame("main.emit", "/mod/example.com/adaptera@v0.3.1/cmd/emit/emit.go", 40)
\* a function of an application package whose directory is named testing
FFixture  == Frame("example.com/app/testing/fixtures.Load", "/src/example.com/app/testing/fixtures/load.go", 17)
\* frames of package main of two modules, with file paths relative to the
\* directory that holds the module: the adapter's and a module named applog
FRelAdapter == Frame("main.emit", "adaptera/cmd/emit/emit.go", 40)
FRelApplog  == Frame("main.report", "applog/cmd/report/report.go", 12)
\* application frames whose names contain or extend a name the classifier
\* looks for: a module named catalog, a package logistics next to the logging
\* package, and an application package named runtime
FCatalog    == Frame("example.com/catalog.List", "/mod/example.com/catalog@v1.2.0/x.go", 8)
FLogistics  == Frame("github.com/luxfi/logistics.Run", "/mod/github.com/luxfi/logistics@v0.1.0/run.go", 30)
FAppRuntime == Frame("example.com/app/runtime.Start", "/src/example.com/app/runtime/start.go", 5)
\* the n-th of a chain of wrappers inside the logging package
FWrapper(n) == Frame("github.com/luxfi/log.(*zapLogger).Log", "/src/github.com/luxfi/log/logger.go", 180 + n)

\* firstExternalCaller, line 69
maxDepth == 64

\* log call from a helper nested in application functions
NestedStack == <<FWrite, FZapWrite, FZapInfo, FHelper, FDoLog, FMain, FRtMain, FGoexit>>
\* app -> adapter A -> adapter B -> core
ChainStack == <<FWrite, FZapWrite, FZapInfo, FAdapterB, FAdapterA, FMain, FRtMain, FGoexit>>
\* log call from a function the runtime runs while panicking
PanicStack == <<FWrite, FZapWrite, FZapInfo, FGopanic, FDeferred, FMain, FRtMain, FGoexit>>
\* log call from a test of the logging package itself
PkgTestStack == <<FWrite, FZapWrite, FZapInfo, FPkgTest, FTRunner, FGoexit>>
\* log call from a test of an application package
AppTestStack == <<FWrite, FZapWrite, FZapInfo, FAppTest, FTRunner, FGoexit>>

\* log call through code under the adapters' prefixes whose function names do
\* not carry them
VendorStack == <<FWrite, FZapWrite, FZapInfo, FVendorB, FCmdA, FMain, FRtMain, FGoexit>>

\* log call of an application binary from its package app/testing/fixtures
FixtureStack == <<FWrite, FZapWrite, FZapInfo, FFixture, FMain, FRtMain, FGoexit>>

\* log call through functions whose files have relative paths
TrimmedStack == <<FWrite, FZapWrite, FZapInfo, FRelAdapter, FRelApplog, FMain, FRtMain, FGoexit>>

\* log call through the application's catalog, logistics and runtime packages
LookalikeStack ==
    <<FWrite, FZapWrite, FZapInfo, FCatalog, FLogistics, FAppRuntime, FMain, FRtMain, FGoexit>>

Stacks == {NestedStack, ChainStack, PanicStack, PkgTestStack, AppTestStack, VendorStack}

\* a stack with d wrapper frames between zap and the application: main.main is
\* its frame d + 4
DeepStack(d) ==
    <<FWrite, FZapWrite, FZapInfo>> \o [n \in 1..d |-> FWrapper(n)] \o <<FMain, FRtMain, FGoexit>>

\* stacks whose first application frame is the last captured frame, the first
\* frame not captured, and further out
DeepStacks == {DeepStack(maxDepth - 4), DeepStack(maxDepth - 3), DeepStack(maxDepth + 2)}

\* the frames of the stacks of ordinary depth
StackFrames == UNION {Range(stack) : stack \in Stacks}

\* zapcore.DebugLevel and zapcore.InfoLevel
ZapDebugLevel == -1
ZapInfoLevel == 0
\* levels the wrapped core may be built with (observer.New(level))
CoreLevels == {ZapDebugLevel, ZapInfoLevel}
\* levels of the entries logged
ZapLevels == {ZapDebugLevel, ZapInfoLevel}

\* zapcore.EntryCaller{}; PC is the position of the frame in the captured stack
ZeroCaller == [Defined |-> FALSE, PC |-> 0, File |-> "", Line |-> 0]

EntryCaller(frames, i) ==
    [Defined |-> TRUE, PC |-> i, File |-> frames[i].File, Line |-> frames[i].Line]

\* runtime.Callers(2, pcs[:]) with pcs of length maxDepth: the innermost frames
CallersAll(stack) == stack
Callers(stack) == SubSeq(stack, 1, Min(Len(stack), maxDepth))

-----------------------------------------------------------------------------
(* caller.go: firstExternalCaller, one loop iteration per step *)

\* what one iteration of the loop of lines 79-119 does with frame f:
\* "return" (lines 94, 109), "continue" (next frame) or "break" (line 120)
StepOutcomeNoRuntime(f, more, pkgs) ==
    IF ~isInternalFrame(f, pkgs)
      THEN IF ~Contains(f.File, "/testing/") /\ ~Contains(f.File, "_test.go")
             THEN "return"
             ELSE IF Contains(f.File, "/testing/")
                    THEN IF ~more THEN "break" ELSE "continue"
                    ELSE "return"
      ELSE IF ~more THEN "break" ELSE "continue"
StepOutcomeSkipTests(f, more, pkgs) ==
    IF isRuntimeFrame(f)
      THEN IF ~more THEN "break" ELSE "continue"
      ELSE IF ~isInternalFrame(f, pkgs)
             /\ ~Contains(f.File, "/testing/") /\ ~Contains(f.File, "_test.go")
             THEN "return"
             ELSE IF ~more THEN "break" ELSE "continue"
StepOutcome(f, more, pkgs) ==
    IF isRuntimeFrame(f)
      THEN IF ~more THEN "break" ELSE "continue"
      ELSE IF ~isInternalFrame(f, pkgs)
             THEN IF ~Contains(f.File, "/testing/") /\ ~Contains(f.File, "_test.go")
                    THEN "return"
                    ELSE IF Contains(f.File, "/testing/")
                           THEN IF ~more THEN "break" ELSE "continue"
                           ELSE "return"
             ELSE IF ~more THEN "break" ELSE "continue"

\* how lines 83 and 91 classify frame f against the list pkgs
Classify(f, pkgs) ==
    IF isRuntimeFrame(f) THEN "runtime"
    ELSE IF isInternalFrame(f, pkgs) THEN "internal" ELSE "external"

\* the Caller of the entry callerCore.Write receives: the logger is built with
\* zap.AddCaller() (globals.go, line 21), so zap has set it to the frame that
\* called the logging method, the one behind zap's own two frames
ZapCaller(stack) ==
    IF Len(stack) >= 4 THEN EntryCaller(stack, 4) ELSE ZeroCaller

\* the wrapped core writes to an output that works or to one that fails
CoreSinks == {"ok", "broken"}

\* what the wrapped core's Write returns
CoreWriteResult(sink) == IF sink = "ok" THEN "nil" ELSE "error"

\* the wrapped core's Enabled: a zapcore.LevelEnabler built with the level core
CheckEnabledAlways(lvl, core) == TRUE
CheckEnabled(lvl, core) == lvl >= core

\* lvl and core are the entry's level and the wrapped core's level, sink the
\* state of the wrapped core's output, depth the
\* depth of the goroutine's stack, caller the Caller the entry arrived with;
\* cls[j] is how the j-th captured frame was classified when the loop examined
\* it, pkgs the list the last examination loaded; ent is the Caller of the entry
\* passed to the wrapped core's Write and ret what callerCore.Write returned;
\* logger is the zapLogger the call was made on (0: a zap.Logger built directly
\* on its core) and ctx the fields the wrapped core adds to the entries it writes
WalkIdle ==
    [pc |-> "idle", lvl |-> 0, core |-> 0, sink |-> "ok", depth |-> 0, caller |-> ZeroCaller,
     frames |-> << >>, i |-> 0, cls |-> << >>, pkgs |-> << >>,
     ok |-> FALSE, ec |-> ZeroCaller,
     written |-> FALSE, ent |-> ZeroCaller, ret |-> "none",
     logger |-> 0, ctx |-> << >>]

\* callerCore.Write, line 63: the entry, with the Caller it has now, goes to the
\* wrapped core, whose result is returned
CoreWriteNoCaller(w, caller) ==
    [w EXCEPT !.pc = "done", !.written = TRUE, !.ent = ZeroCaller,
              !.ret = CoreWriteResult(w.sink)]
CoreWrite(w, caller) ==
    [w EXCEPT !.pc = "done", !.written = TRUE, !.ent = caller,
              !.ret = CoreWriteResult(w.sink)]

\* callerCore.Check, lines 49-57, then callerCore.Write up to the capture of the
\* stack (firstExternalCaller, lines 69-78): an entry the wrapped core does not
\* enable is returned unchecked and never written
LogCall(lvl, core, sink, stack) ==
    /\ walk.pc \in {"idle", "done", "rejected"}
    /\ IF ~CheckEnabled(lvl, core)
         THEN walk' = [WalkIdle EXCEPT !.pc = "rejected", !.lvl = lvl, !.core = core,
                                       !.sink = sink]
         ELSE walk' = [WalkIdle EXCEPT !.pc = "loop", !.lvl = lvl, !.core = core,
                                       !.sink = sink,
                                       !.depth = Len(stack), !.caller = ZapCaller(stack),
                                       !.frames = Callers(stack), !.i = 1]
    /\ UNCHANGED <<internalPkgList, heap, reg, ncalls, registered>>
    /\ UNCHANGED glogVars
    /\ UNCHANGED loggerVars

\* one iteration of the loop: frames.Next(), the classification of the frame
\* against the list loaded now (getInternalPkgs, line 135), and its outcome;
\* when the loop ends, lines 60-63 of callerCore.Write. The capture holds at
\* least the frame of callerCore.Write, so n = 0 (lines 74-76) does not occur.
WalkStep ==
    /\ walk.pc = "loop"
    /\ LET f    == walk.frames[walk.i]
           more == walk.i < Len(walk.frames)
           out  == StepOutcome(f, more, getInternalPkgs)
           seen == [walk EXCEPT !.cls = Append(walk.cls, Classify(f, getInternalPkgs)),
                                !.pkgs = getInternalPkgs]
           ec   == EntryCaller(walk.frames, walk.i)
       IN  walk' = CASE out = "return" ->
                          CoreWrite([seen EXCEPT !.ok = TRUE, !.ec = ec], ec)
                     [] out = "continue" ->
                          [seen EXCEPT !.i = walk.i + 1]
                     [] OTHER ->
                          CoreWrite(seen, walk.caller)
    /\ UNCHANGED <<internalPkgList, heap, reg, ncalls, registered>>
    /\ UNCHANGED glogVars
    /\ UNCHANGED loggerVars

-----------------------------------------------------------------------------
(* strings, strconv and path/filepath helpers used by GlogHandler *)

\* the position of the first occurrence of the one-character string c in s, or 0
IndexOf(s, c) ==
    LET at == {i \in 1..Len(s) : SubSeq(s, i, i) = c}
    IN  IF at = {} THEN 0 ELSE CHOOSE i \in at : \A j \in at : i <= j

\* strings.Split(s, ","): the pieces between the commas, at least one
RECURSIVE Split(_)
Split(s) ==
    LET i == IndexOf(s, ",")
    IN  IF i = 0 THEN <<s>>
        ELSE <<SubSeq(s, 1, i - 1)>> \o Split(SubSeq(s, i + 1, Len(s)))

\* strings.SplitN(entry, "=", 2): cut at the first "="
SplitN2(entry) ==
    LET i == IndexOf(entry, "=")
    IN  IF i = 0 THEN <<entry>>
        ELSE <<SubSeq(entry, 1, i - 1), SubSeq(entry, i + 1, Len(entry))>>

DigitValue(c) ==
    CASE c = "0" -> 0 [] c = "1" -> 1 [] c = "2" -> 2 [] c = "3" -> 3 [] c = "4" -> 4
      [] c = "5" -> 5 [] c = "6" -> 6 [] c = "7" -> 7 [] c = "8" -> 8 [] c = "9" -> 9
      [] OTHER -> -1

RECURSIVE Digits(_, _)
\* the value of the decimal digits of s after acc, or -1 if s holds another character
Digits(s, acc) ==
    IF Len(s) = 0 THEN acc
    ELSE LET d == DigitValue(SubSeq(s, 1, 1))
         IN  IF d < 0 THEN -1 ELSE Digits(SubSeq(s, 2, Len(s)), 10 * acc + d)

\* strconv.Atoi(s): an optional sign and at least one decimal digit
Atoi(s) ==
    LET signed == Len(s) > 0 /\ SubSeq(s, 1, 1) \in {"+", "-"}
        body   == IF signed THEN SubSeq(s, 2, Len(s)) ELSE s
        n      == IF Len(body) = 0 THEN -1 ELSE Digits(body, 0)
    IN  IF n < 0 THEN [err |-> TRUE, val |-> 0]
        ELSE [err |-> FALSE, val |-> IF signed /\ SubSeq(s, 1, 1) = "-" THEN 0 - n ELSE n]

RECURSIVE TrimSlashes(_)
TrimSlashes(s) ==
    IF Len(s) > 0 /\ SubSeq(s, Len(s), Len(s)) = "/"
      THEN TrimSlashes(SubSeq(s, 1, Len(s) - 1)) ELSE s

\* filepath.Base(path)
Base(path) ==
    IF path = "" THEN "."
    ELSE LET t == TrimSlashes(path)
             b == SubSeq(t, LastIndexSlash(t) + 2, Len(t))
         IN  IF b = "" THEN "/" ELSE b

-----------------------------------------------------------------------------
(* GlogHandler *)

\* logger.go, lines 21-27
LevelTrace == -1
LevelDebug == -4
LevelInfo == 0
LevelWarn == 4

\* levels of the records logged
RecLevels == {LevelDebug, LevelTrace, LevelInfo, LevelWarn}
\* arguments of Verbosity
VerbLevels == {LevelDebug, LevelWarn}
\* arguments of Vmodule
VmoduleSpecs == {"x.go=-4", "x.go=5,y.go=-2", "x.go=debug,y.go=-4", "y.go=-1,x.go"}

\* program counters of the records: 0 is "no PC"; runtime.CallersFrames resolves
\* the others to a file, which may be unknown ("")
RecPCs == {0, 1, 2, 3}
FileOfPC(pc) ==
    CASE pc = 1 -> "/app/x.go" [] pc = 2 -> "/app/sub/y.go" [] OTHER -> ""

EmptyMap == [k \in {} |-> 0]

\* m[k] = v on a Go map
MapPutFresh(m, k, v) == [x \in {k} |-> v]
MapPut(m, k, v) == [x \in DOMAIN m \cup {k} |-> IF x = k THEN v ELSE m[x]]

\* NewGlogHandler, lines 24-31; its map is vmaps[1]
NewGlogHandler ==
    [handler |-> << >>, minSeverity |-> LevelInfo, vdefault |-> LevelInfo, vmodules |-> 1]

Handlers == 1..Len(glog)

\* spec is the argument of the Vmodule call in flight, before the map as the
\* call found it; ret is what the last Vmodule call returned
CfgIdle ==
    [pc |-> "idle", h |-> 0, v |-> 0, entries |-> << >>, spec |-> "",
     before |-> EmptyMap, ret |-> "none"]

\* a Go program that detected a concurrent map read and map write has exited
Alive == call.pc # "fatal"

\* the call c in flight, after handler h got the thresholds of g: a WithAttrs or
\* WithGroup call on h keeps the pair
Witnessed(c, h, g) ==
    IF c.pc \in {"w97", "w108"} /\ c.h = h
      THEN [c EXCEPT !.held = @ \cup {<<g.minSeverity, g.vdefault>>}]
      ELSE c

\* Verbosity, line 37
VerbosityCall(h, v) ==
    /\ Alive
    /\ cfg.pc = "idle"
    /\ ncfg < MaxCfgCalls
    /\ ncfg' = ncfg + 1
    /\ glog' = [glog EXCEPT ![h].minSeverity = v]
    /\ cfg' = [CfgIdle EXCEPT !.pc = "v38", !.h = h, !.v = v]
    /\ call' = Witnessed(call, h, glog'[h])
    /\ UNCHANGED vmaps
    /\ UNCHANGED callerVars
    /\ UNCHANGED loggerVars

\* Verbosity, line 38
VerbosityStore ==
    /\ Alive
    /\ cfg.pc = "v38"
    /\ glog' = [glog EXCEPT ![cfg.h].vdefault = cfg.v]
    /\ cfg' = CfgIdle
    /\ call' = Witnessed(call, cfg.h, glog'[cfg.h])
    /\ UNCHANGED <<vmaps, ncfg>>
    /\ UNCHANGED callerVars
    /\ UNCHANGED loggerVars

\* Vmodule, line 44: the entries of the spec
VmoduleCall(h, spec) ==
    /\ Alive
    /\ cfg.pc = "idle"
    /\ ncfg < MaxCfgCalls
    /\ ncfg' = ncfg + 1
    /\ cfg' = [CfgIdle EXCEPT !.pc = "vm", !.h = h, !.entries = Split(spec),
                              !.spec = spec, !.before = vmaps[glog[h].vmodules]]
    /\ UNCHANGED <<glog, vmaps, call>>
    /\ UNCHANGED callerVars
    /\ UNCHANGED loggerVars

\* what one iteration of the loop of lines 44-54 does to the map m with entry
VmoduleEntryUnchecked(m, entry) ==
    LET parts == SplitN2(entry)
    IN  IF Len(parts) # 2 THEN m
        ELSE MapPut(m, parts[1], Atoi(parts[2]).val)
VmoduleEntry(m, entry) ==
    LET parts == SplitN2(entry)
    IN  IF Len(parts) # 2 THEN m
        ELSE IF Atoi(parts[2]).err THEN m
        ELSE MapPut(m, parts[1], Atoi(parts[2]).val)

\* Vmodule, lines 44-55, on the map m: the loop over the entries, in order
RECURSIVE VmoduleLoop(_, _)
VmoduleLoop(m, entries) ==
    IF Len(entries) = 0 THEN m
    ELSE VmoduleLoop(VmoduleEntry(m, Head(entries)), Tail(entries))

\* Vmodule, lines 45-55: one iteration of the loop; after the last one, return nil
VmoduleStep ==
    /\ Alive
    /\ cfg.pc = "vm"
    /\ LET mid == glog[cfg.h].vmodules
       IN  vmaps' = [vmaps EXCEPT ![mid] = VmoduleEntry(vmaps[mid], Head(cfg.entries))]
    /\ cfg' = IF Len(cfg.entries) = 1 THEN [CfgIdle EXCEPT !.ret = "nil"]
              ELSE [cfg EXCEPT !.entries = Tail(cfg.entries)]
    /\ UNCHANGED <<glog, call, ncfg>>
    /\ UNCHANGED callerVars
    /\ UNCHANGED loggerVars

\* sev and vdef are the minSeverity and vdefault the call read (lines 62, 69 and
\* 74), ov the result of its map lookup (line 79), vthr its threshold at line 84;
\* for WithAttrs and WithGroup, held are the pairs of minSeverity and vdefault
\* that g has had since the call began
CallIdle ==
    [op |-> "none", pc |-> "idle", h |-> 0, lvl |-> 0, rpc |-> 0, sev |-> 0,
     vdef |-> 0, vthr |-> 0, ov |-> "unread", out |-> "none", held |-> {}]

\* Enabled, line 62
EnabledNoVerbose(sev, level) == level >= sev
EnabledResultStrict(sev, level) == level > sev \/ level < LevelInfo
EnabledResult(sev, level) == level >= sev \/ level < LevelInfo

\* Enabled, lines 60-63; sev is the minSeverity it read
Enabled(h, level) ==
    /\ call.pc \in {"idle", "done"}
    /\ call' = [CallIdle EXCEPT !.op = "Enabled", !.pc = "done", !.h = h, !.lvl = level,
                                !.sev = glog[h].minSeverity,
                                !.out = IF EnabledResult(glog[h].minSeverity, level)
                                          THEN "true" ELSE "false"]
    /\ UNCHANGED <<glog, vmaps, cfg, ncfg>>
    /\ UNCHANGED callerVars
    /\ UNCHANGED loggerVars

\* Handle, lines 68-72: the severity test against the minSeverity read at line 69
SeverityOutcomeAlways(sev, lvl) ==
    IF lvl < LevelInfo THEN "verbose" ELSE IF lvl >= sev THEN "forwarded" ELSE "dropped"
SeverityOutcomeNoDrop(sev, lvl) == IF lvl >= sev THEN "forwarded" ELSE "verbose"
SeverityOutcome(sev, lvl) ==
    IF lvl >= sev THEN "forwarded"
    ELSE IF lvl < LevelInfo THEN "verbose" ELSE "dropped"

\* Handle, line 84: the verbosity test against the threshold vthr
VerboseOutcomeStrict(vthr, lvl) == IF lvl < vthr THEN "forwarded" ELSE "dropped"
VerboseOutcome(vthr, lvl) == IF lvl <= vthr THEN "forwarded" ELSE "dropped"

\* Handle, lines 67-72; a record at or above minSeverity goes to the wrapped handler
HandleCall(h, lvl, rpc) ==
    /\ call.pc \in {"idle", "done"}
    /\ LET sev == glog[h].minSeverity
           o   == SeverityOutcome(sev, lvl)
       IN  call' = [CallIdle EXCEPT !.op = "Handle", !.h = h, !.lvl = lvl, !.rpc = rpc,
                                    !.sev = sev,
                                    !.pc = IF o = "verbose" THEN "h74" ELSE "done",
                                    !.out = IF o = "verbose" THEN "none" ELSE o]
    /\ UNCHANGED <<glog, vmaps, cfg, ncfg>>
    /\ UNCHANGED callerVars
    /\ UNCHANGED loggerVars

\* whether lines 76-78 find a file to look up
HasFile(rpc) == rpc # 0 /\ FileOfPC(rpc) # ""

\* Handle, lines 74-78: vthr := g.vdefault; without a PC or without a file the
\* decision of line 84 follows at once
HandleVdefault ==
    /\ call.op = "Handle" /\ call.pc = "h74"
    /\ LET vthr == glog[call.h].vdefault
       IN  call' = IF HasFile(call.rpc)
                     THEN [call EXCEPT !.pc = "h79", !.vdef = vthr, !.vthr = vthr]
                     ELSE [call EXCEPT !.pc = "done", !.vdef = vthr, !.vthr = vthr,
                                       !.ov = "none",
                                       !.out = VerboseOutcome(vthr, call.lvl)]
    /\ UNCHANGED <<glog, vmaps, cfg, ncfg>>
    /\ UNCHANGED callerVars
    /\ UNCHANGED loggerVars

\* the threshold after the lookup of line 79 in the map m
LookupDefaultOnly(m, base, vdef) == vdef
Lookup(m, base, vdef) == IF base \in DOMAIN m THEN m[base] ELSE vdef

\* the Vmodule call in flight is about to write to the map Handle reads (line
\* 53): the two accesses are not ordered, and a Go map read that meets a write
\* ends the program ("fatal error: concurrent map read and map write")
MapWriteInFlight ==
    /\ cfg.pc = "vm"
    /\ glog[cfg.h].vmodules = glog[call.h].vmodules
    /\ LET parts == SplitN2(Head(cfg.entries))
       IN  Len(parts) = 2 /\ ~Atoi(parts[2]).err

\* Handle, lines 79-88: the map lookup and the decision
HandleLookup ==
    /\ call.op = "Handle" /\ call.pc = "h79"
    /\ LET m    == vmaps[glog[call.h].vmodules]
           base == Base(FileOfPC(call.rpc))
           vthr == Lookup(m, base, call.vthr)
       IN  \/ call' = [call EXCEPT !.pc = "done", !.vthr = vthr,
                                   !.ov = IF base \in DOMAIN m THEN "found" ELSE "none",
                                   !.out = VerboseOutcome(vthr, call.lvl)]
           \/ /\ MapWriteInFlight
              /\ call' = [call EXCEPT !.pc = "fatal", !.out = "fatal"]
    /\ UNCHANGED <<glog, vmaps, cfg, ncfg>>
    /\ UNCHANGED callerVars
    /\ UNCHANGED loggerVars

\* WithAttrs, lines 93-96: the logging goroutine derives a handler; the
\* minSeverity of g is read for it
WithAttrs(h) ==
    /\ Alive
    /\ call.pc \in {"idle", "done"}
    /\ Len(glog) < MaxHandlers
    /\ call' = [CallIdle EXCEPT !.op = "WithAttrs", !.pc = "w97", !.h = h,
                                !.sev = glog[h].minSeverity,
                                !.held = {<<glog[h].minSeverity, glog[h].vdefault>>}]
    /\ UNCHANGED <<glog, vmaps, cfg, ncfg>>
    /\ UNCHANGED callerVars
    /\ UNCHANGED loggerVars

\* WithGroup, lines 104-107
WithGroup(h) ==
    /\ Alive
    /\ call.pc \in {"idle", "done"}
    /\ Len(glog) < MaxHandlers
    /\ call' = [CallIdle EXCEPT !.op = "WithGroup", !.pc = "w108", !.h = h,
                                !.sev = glog[h].minSeverity,
                                !.held = {<<glog[h].minSeverity, glog[h].vdefault>>}]
    /\ UNCHANGED <<glog, vmaps, cfg, ncfg>>
    /\ UNCHANGED callerVars
    /\ UNCHANGED loggerVars

\* the handler WithAttrs and WithGroup build: sev is the minSeverity read
\* before, vdefault and the map are those of g now
DerivedHandler(g, op, sev) ==
    [handler |-> Append(g.handler, IF op = "WithAttrs" THEN "attrs" ELSE "group"),
     minSeverity |-> sev, vdefault |-> g.vdefault, vmodules |-> g.vmodules]

\* WithAttrs, lines 97-99, and WithGroup, lines 108-110: vdefault and the map
\* of g are read and the new handler is returned
DeriveReturn ==
    /\ call.op \in {"WithAttrs", "WithGroup"} /\ call.pc \in {"w97", "w108"}
    /\ glog' = Append(glog, DerivedHandler(glog[call.h], call.op, call.sev))
    /\ call' = [call EXCEPT !.pc = "done", !.vdef = glog[call.h].vdefault, !.out = "derived"]
    /\ UNCHANGED <<vmaps, cfg, ncfg>>
    /\ UNCHANGED callerVars
    /\ UNCHANGED loggerVars

-----------------------------------------------------------------------------
(* logger.go: zapLogger, the levels it converts and the cores it logs to *)

\* logger.go, lines 19, 29 and 31
LevelVerbo == -2
LevelError == 8
LevelCrit == 12

\* zapcore.WarnLevel to zapcore.FatalLevel
ZapWarnLevel == 1
ZapErrorLevel == 2
ZapDPanicLevel == 3
ZapPanicLevel == 4
ZapFatalLevel == 5

\* slogToZapLevel, lines 291-308
slogToZapLevel(level) ==
    CASE level <= LevelVerbo -> ZapDebugLevel
      [] level <= LevelTrace -> ZapDebugLevel
      [] level <= LevelDebug -> ZapDebugLevel
      [] level <= LevelInfo -> ZapInfoLevel
      [] level <= LevelWarn -> ZapWarnLevel
      [] level <= LevelError -> ZapErrorLevel
      [] OTHER -> ZapFatalLevel

\* zapToSlogLevel, lines 311-326
zapToSlogLevel(level) ==
    CASE level = ZapDebugLevel -> LevelDebug
      [] level = ZapInfoLevel -> LevelInfo
      [] level = ZapWarnLevel -> LevelWarn
      [] level = ZapErrorLevel -> LevelError
      [] level \in {ZapDPanicLevel, ZapPanicLevel, ZapFatalLevel} -> LevelCrit
      [] OTHER -> LevelInfo

\* contextToFields, lines 278-288, and the loop of With, lines 117-124: one
\* field per pair of ctx; an element without a partner is left out
contextToFields(ctx) ==
    [j \in 1..(Len(ctx) \div 2) |-> [Key |-> ctx[2 * j - 1], Val |-> ctx[2 * j]]]

\* a level cell: lvl is the zapcore.Level it holds; set tells whether SetLevel
\* was called on it, and arg is the argument of the last such call
Cell(lvl) == [lvl |-> lvl, set |-> FALSE, arg |-> 0]

\* a zapcore.Core: callerCore tells whether it is a callerCore around the core
\* that writes, fields are the fields that core adds to every entry, enab is the
\* address of its LevelEnabler
Core(wrapped, fields, enab) == [callerCore |-> wrapped, fields |-> fields, enab |-> enab]

\* a zapLogger: the core of its zap.Logger and the address of its level
ZapLogger(core, level) == [core |-> core, level |-> level]

\* globals.go, lines 14-26: the global logger, on a callerCore around the core
\* of the production configuration, whose level is Info; NewZapLogger gives it
\* a level of its own
GlobalLevels == <<Cell(ZapInfoLevel), Cell(ZapInfoLevel)>>
GlobalLogger == ZapLogger(Core(TRUE, << >>, 1), 2)

\* zapLogger objects built over a run
MaxLoggers == 2

LoggerIds == 1..Len(loggers)

LcallIdle == [op |-> "none", k |-> 0, level |-> 0, fields |-> << >>, out |-> FALSE, ret |-> 0]

\* NewZapLogger, lines 95-103, on zap.New(callerCore{Core: obsCore}, zap.AddCaller())
\* with obsCore a core at level coreLevel (caller_test.go, lines 14-17): the
\* level of the new zapLogger is a new AtomicLevel at Info
NewZapLogger(coreLevel) ==
    /\ Len(loggers) < MaxLoggers
    /\ levels' = levels \o <<Cell(coreLevel), Cell(ZapInfoLevel)>>
    /\ loggers' = Append(loggers, ZapLogger(Core(TRUE, << >>, Len(levels) + 1), Len(levels) + 2))
    /\ lcall' = [LcallIdle EXCEPT !.op = "NewZapLogger", !.ret = Len(loggers) + 1]
    /\ UNCHANGED callerVars
    /\ UNCHANGED glogVars

\* callerCore.With, lines 45-47: a callerCore around the wrapped core's With.
\* Without this method the embedded core's With would be called, and return the
\* wrapped core's kind of core.
callerCoreWithEmbedded(c, fields) ==
    [c EXCEPT !.callerCore = FALSE, !.fields = c.fields \o fields]
callerCoreWith(c, fields) == [c EXCEPT !.fields = c.fields \o fields]

\* zap.Logger.With(fields...): a logger on core.With(fields)
CoreWith(c, fields) ==
    IF c.callerCore THEN callerCoreWith(c, fields)
    ELSE [c EXCEPT !.fields = c.fields \o fields]

\* zapLogger.With, lines 111-132: without arguments the logger itself; otherwise
\* a zapLogger on l.logger.With(fields...) with the level of l
With(k, ctx) ==
    /\ Len(loggers) < MaxLoggers
    /\ IF Len(ctx) = 0
         THEN /\ lcall' = [LcallIdle EXCEPT !.op = "With", !.k = k, !.ret = k]
              /\ UNCHANGED loggers
         ELSE /\ loggers' = Append(loggers, ZapLogger(CoreWith(loggers[k].core, contextToFields(ctx)),
                                                      loggers[k].level))
              /\ lcall' = [LcallIdle EXCEPT !.op = "With", !.k = k,
                                            !.fields = contextToFields(ctx),
                                            !.ret = Len(loggers) + 1]
    /\ UNCHANGED levels
    /\ UNCHANGED callerVars
    /\ UNCHANGED glogVars

\* zapLogger.WithFields, lines 140-147
WithFields(k, fields) ==
    /\ Len(loggers) < MaxLoggers
    /\ loggers' = Append(loggers, ZapLogger(CoreWith(loggers[k].core, fields), loggers[k].level))
    /\ lcall' = [LcallIdle EXCEPT !.op = "WithFields", !.k = k, !.fields = fields,
                                  !.ret = Len(loggers) + 1]
    /\ UNCHANGED levels
    /\ UNCHANGED callerVars
    /\ UNCHANGED glogVars

\* zapLogger.SetLevel, lines 160-162: l.level.SetLevel(slogToZapLevel(level))
SetLevel(k, level) ==
    /\ levels' = [levels EXCEPT ![loggers[k].level] =
                     [lvl |-> slogToZapLevel(level), set |-> TRUE, arg |-> level]]
    /\ lcall' = [LcallIdle EXCEPT !.op = "SetLevel", !.k = k, !.level = level]
    /\ UNCHANGED loggers
    /\ UNCHANGED callerVars
    /\ UNCHANGED glogVars

\* zapLogger.GetLevel, lines 165-167: zapToSlogLevel(l.level.Level())
GetLevel(k) ==
    /\ lcall' = [LcallIdle EXCEPT !.op = "GetLevel", !.k = k,
                                  !.ret = zapToSlogLevel(levels[loggers[k].level].lvl)]
    /\ UNCHANGED <<levels, loggers>>
    /\ UNCHANGED callerVars
    /\ UNCHANGED glogVars

\* l.logger.Core().Enabled(lvl): the LevelEnabler of the logger's core
CoreEnabled(k, lvl) == CheckEnabled(lvl, levels[loggers[k].core.enab].lvl)

\* zapLogger.Enabled, lines 170-172
LoggerEnabled(k, level) ==
    /\ lcall' = [LcallIdle EXCEPT !.op = "Enabled", !.k = k, !.level = level,
                                  !.out = CoreEnabled(k, slogToZapLevel(level))]
    /\ UNCHANGED <<levels, loggers>>
    /\ UNCHANGED callerVars
    /\ UNCHANGED glogVars

\* zapLogger.EnabledLevel, lines 175-177
EnabledLevel(k, lvl) ==
    /\ lcall' = [LcallIdle EXCEPT !.op = "EnabledLevel", !.k = k, !.level = lvl,
                                  !.out = CoreEnabled(k, slogToZapLevel(lvl))]
    /\ UNCHANGED <<levels, loggers>>
    /\ UNCHANGED callerVars
    /\ UNCHANGED glogVars

\* the frame of zapLogger.Log that calls ce.Write (line 184)
FLog == Frame("github.com/luxfi/log.(*zapLogger).Log", "/src/github.com/luxfi/log/logger.go", 184)

\* Log called from the nested helper of an application, and from a test of the
\* logging package
LogStack == <<FWrite, FZapWrite, FLog, FHelper, FDoLog, FMain, FRtMain, FGoexit>>
LogTestStack == <<FWrite, FZapWrite, FLog, FPkgTest, FTRunner, FGoexit>>
LogStacks == {LogStack, LogTestStack}

\* the Caller zap gives the entry of l.logger.Check (line 182): the frame that
\* called Check, which is zapLogger.Log
CheckCaller(stack) == EntryCaller(stack, 3)

\* zapLogger.Log, lines 180-186: l.logger.Check(zapLevel, msg) asks the core's
\* Check (callerCore.Check, lines 49-57); a checked entry is written by
\* ce.Write: through callerCore.Write, up to the capture of the stack, when the
\* core is a callerCore, and by the core that writes otherwise
Log(k, level, stack) ==
    /\ walk.pc \in {"idle", "done", "rejected"}
    /\ LET c        == loggers[k].core
           zapLevel == slogToZapLevel(level)
           w        == [WalkIdle EXCEPT !.lvl = zapLevel, !.core = levels[c.enab].lvl,
                                        !.logger = k]
           e        == [w EXCEPT !.depth = Len(stack), !.caller = CheckCaller(stack),
                                 !.ctx = c.fields]
       IN  walk' = IF ~CoreEnabled(k, zapLevel) THEN [w EXCEPT !.pc = "rejected"]
                   ELSE IF c.callerCore
                          THEN [e EXCEPT !.pc = "loop", !.frames = Callers(stack), !.i = 1]
                          ELSE CoreWrite(e, CheckCaller(stack))
    /\ UNCHANGED <<internalPkgList, heap, reg, ncalls, registered>>
    /\ UNCHANGED glogVars
    /\ UNCHANGED loggerVars

-----------------------------------------------------------------------------
(* Initial state: the registry as init() leaves it, one handler as NewGlogHandler *)
(* returns it, nothing in flight                                                  *)

Init ==
    /\ heap = <<InitPkgs>>
    /\ internalPkgList = Slice(1, Len(InitPkgs))
    /\ reg = [g \in Registrars |-> RegIdle]
    /\ ncalls = 0
    /\ registered = {}
    /\ walk = WalkIdle
    /\ glog = <<NewGlogHandler>>
    /\ vmaps = <<EmptyMap>>
    /\ cfg = CfgIdle
    /\ call = CallIdle
    /\ ncfg = 0
    /\ levels = GlobalLevels
    /\ loggers = <<GlobalLogger>>
    /\ lcall = LcallIdle

-----------------------------------------------------------------------------
(* The admission-filter specification *)

NextGlog ==
    \/ \E h \in Handlers, v \in VerbLevels : VerbosityCall(h, v)
    \/ VerbosityStore
    \/ \E h \in Handlers, spec \in VmoduleSpecs : VmoduleCall(h, spec)
    \/ VmoduleStep
    \/ \E h \in Handlers, level \in RecLevels : Enabled(h, level)
    \/ \E h \in Handlers, lvl \in RecLevels, rpc \in RecPCs : HandleCall(h, lvl, rpc)
    \/ HandleVdefault
    \/ HandleLookup

SpecGlog == Init /\ [][NextGlog]_vars

\* the same with handlers derived by WithAttrs and WithGroup
NextDerived ==
    \/ NextGlog
    \/ \E h \in Handlers : WithAttrs(h)
    \/ \E h \in Handlers : WithGroup(h)
    \/ DeriveReturn

SpecDerived == Init /\ [][NextDerived]_vars

\* handlers derived while the thresholds and the table are configured
NextShared ==
    \/ \E h \in Handlers, v \in VerbLevels : VerbosityCall(h, v)
    \/ VerbosityStore
    \/ \E h \in Handlers, spec \in VmoduleSpecs : VmoduleCall(h, spec)
    \/ VmoduleStep
    \/ \E h \in Handlers : WithAttrs(h)
    \/ \E h \in Handlers : WithGroup(h)
    \/ DeriveReturn

SpecShared == Init /\ [][NextShared]_vars

-----------------------------------------------------------------------------
(* The caller-attribution specification *)

NextCaller ==
    \/ \E g \in Registrars, pkgs \in RegArgsSingle : RegisterLoad(g, pkgs)
    \/ \E g \in Registrars : RegisterMake(g)
    \/ \E g \in Registrars : RegisterAppend(g)
    \/ \E g \in Registrars : RegisterStore(g)
    \/ \E lvl \in ZapLevels, stack \in Stacks : LogCall(lvl, ZapDebugLevel, "ok", stack)
    \/ WalkStep

SpecCaller == Init /\ [][NextCaller]_vars

\* the registry alone: concurrent RegisterInternalPackages calls
NextRegistry ==
    \/ \E g \in Registrars, pkgs \in RegArgs : RegisterLoad(g, pkgs)
    \/ \E g \in Registrars : RegisterMake(g)
    \/ \E g \in Registrars : RegisterAppend(g)
    \/ \E g \in Registrars : RegisterStore(g)

SpecRegistry == Init /\ [][NextRegistry]_vars

\* log calls at every level, on cores of every level and either output, from
\* stacks of every depth, with the registry as init() leaves it
NextWrite ==
    \/ \E lvl \in ZapLevels, core \in CoreLevels, sink \in CoreSinks,
          stack \in Stacks \cup DeepStacks \cup {FixtureStack, LookalikeStack} :
              LogCall(lvl, core, sink, stack)
    \/ WalkStep

SpecWrite == Init /\ [][NextWrite]_vars

\* arguments of zapLogger.With: none, a key and a value, a key without a value
CtxArgs == {<< >>, <<"key", "value">>, <<"key">>}

\* arguments of zapLogger.WithFields
FieldArgs == {<<[Key |-> "module", Val |-> "p2p"]>>}

\* loggers built and derived, and records logged through them
NextDerive ==
    \/ \E coreLevel \in CoreLevels : NewZapLogger(coreLevel)
    \/ \E k \in LoggerIds, ctx \in CtxArgs : With(k, ctx)
    \/ \E k \in LoggerIds, fields \in FieldArgs : WithFields(k, fields)
    \/ \E k \in LoggerIds, level \in RecLevels, stack \in LogStacks : Log(k, level, stack)
    \/ WalkStep

SpecDerive == Init /\ [][NextDerive]_vars

\* arguments of SetLevel, and levels asked about and logged at
SetLevels == {LevelTrace, LevelWarn}
AskLevels == {LevelDebug, LevelInfo}

\* the levels of the loggers set and read, and records logged from the
\* application's helper
NextLevel ==
    \/ NewZapLogger(ZapDebugLevel)
    \/ \E k \in LoggerIds : With(k, <<"key", "value">>)
    \/ \E k \in LoggerIds, level \in SetLevels : SetLevel(k, level)
    \/ \E k \in LoggerIds : GetLevel(k)
    \/ \E k \in LoggerIds, level \in AskLevels : LoggerEnabled(k, level)
    \/ \E k \in LoggerIds, lvl \in AskLevels : EnabledLevel(k, lvl)
    \/ \E k \in LoggerIds, level \in AskLevels : Log(k, level, LogStack)
    \/ WalkStep

SpecLevel == Init /\ [][NextLevel]_vars

\* wrappers registered while records are logged through functions whose files
\* have relative paths
NextTrimmed ==
    \/ \E g \in Registrars, pkgs \in RegArgsShort : RegisterLoad(g, pkgs)
    \/ \E g \in Registrars : RegisterMake(g)
    \/ \E g \in Registrars : RegisterAppend(g)
    \/ \E g \in Registrars : RegisterStore(g)
    \/ LogCall(ZapInfoLevel, ZapDebugLevel, "ok", TrimmedStack)
    \/ WalkStep

SpecTrimmed == Init /\ [][NextTrimmed]_vars

-----------------------------------------------------------------------------
(* Claims about caller attribution, checked under SpecCaller *)

\* the frame a finished walk returned
Returned == walk.frames[walk.ec.PC]

\* C1 (as stated): a finished walk returns the first captured frame that was
\* classified neither runtime nor internal: the returned frame was classified
\* external, no frame before it was, and when nothing is returned no captured
\* frame was classified external.
C1_FirstExternalFrame ==
    walk.pc = "done" =>
        IF walk.ok
          THEN /\ walk.ec = EntryCaller(walk.frames, walk.ec.PC)
               /\ walk.cls[walk.ec.PC] = "external"
               /\ \A j \in 1..(walk.ec.PC - 1) : walk.cls[j] # "external"
          ELSE /\ Len(walk.cls) = Len(walk.frames)
               /\ \A j \in 1..Len(walk.cls) : walk.cls[j] # "external"

\* the frames the walk may pass over: those classified runtime or internal, and
\* those of the testing framework
Passable(j) ==
    walk.cls[j] # "external" \/ Contains(walk.frames[j].File, "/testing/")

\* C1 (amended): a finished walk returns the first captured frame that was
\* classified neither runtime nor internal and whose file path does not contain
\* "/testing/"; every frame before it is runtime, internal or a testing-framework
\* frame, and when nothing is returned every captured frame is one of those.
C1_FirstExternalNonTestingFrame ==
    walk.pc = "done" =>
        IF walk.ok
          THEN /\ walk.ec = EntryCaller(walk.frames, walk.ec.PC)
               /\ ~Passable(walk.ec.PC)
               /\ \A j \in 1..(walk.ec.PC - 1) : Passable(j)
          ELSE /\ Len(walk.cls) = Len(walk.frames)
               /\ \A j \in 1..Len(walk.cls) : Passable(j)

\* a debug-level call from the nested helper is attributed to the helper's line
C1_Witness ==
    /\ walk.pc = "done" /\ walk.frames = NestedStack /\ walk.lvl = ZapDebugLevel
    /\ walk.ok /\ walk.ec.File = "/app/main.go" /\ walk.ec.Line = 94

\* C2: whenever firstExternalCaller returns found = true, the returned frame is
\* not a runtime frame and isInternalFrame does not classify it internal under
\* the list the classification loaded.
C2_NeverReturnsInternal ==
    (walk.pc = "done" /\ walk.ok) =>
        /\ ~isRuntimeFrame(Returned)
        /\ ~isInternalFrame(Returned, walk.pkgs)

\* a walk that passed library frames and a runtime frame and returned the
\* application frame behind them
C2_Witness ==
    /\ walk.pc = "done" /\ walk.frames = PanicStack /\ walk.ok
    /\ walk.cls = <<"internal", "internal", "internal", "runtime", "external">>
    /\ Returned = FDeferred

\* C3: for the chain app -> adapter A -> adapter B -> core, a walk that ends
\* with the registry holding only its initial prefixes is attributed to adapter
\* B's frame, and a walk that ends with A's and B's prefixes registered is
\* attributed to the application frame.
C3_WrapperChain ==
    (walk.pc = "done" /\ walk.frames = ChainStack) =>
        /\ walk.pkgs = InitPkgs => (walk.ok /\ Returned = FAdapterB)
        /\ {PkgA, PkgB} \subseteq Range(walk.pkgs) => (walk.ok /\ Returned = FMain)

\* the chain logged after both adapters were registered
C3_Witness ==
    /\ walk.pc = "done" /\ walk.frames = ChainStack
    /\ {PkgA, PkgB} \subseteq registered
    /\ {PkgA, PkgB} \subseteq Range(walk.pkgs)
    /\ walk.ok /\ walk.ec.File = "/app/main.go" /\ walk.ec.Line = 102

\* C10: once every RegisterInternalPackages call has returned, every prefix
\* passed to one of them, and every initial prefix, is in the published list.
C10_NoRegistrationLost ==
    (\A g \in Registrars : reg[g].pc = "idle") =>
        (registered \cup Range(InitPkgs)) \subseteq Range(getInternalPkgs)

-----------------------------------------------------------------------------
(* Claims about the registry, checked under SpecRegistry *)

IsPrefix(s, t) == Len(s) <= Len(t) /\ SubSeq(t, 1, Len(s)) = s

\* C11: the registry only grows: at every step, under any interleaving of
\* registrations, the list published before the step is a prefix of the list
\* published after it.
C11_RegistryOnlyGrows ==
    [][IsPrefix(getInternalPkgs, getInternalPkgs')]_vars

\* the calls of g between its Load and its return hold the slice they loaded
Holding(g) == reg[g].pc # "idle"

\* the calls whose copy is allocated and not yet published
Building(g) == reg[g].pc \in {"l32", "l34"}

\* C12: a published list is immutable and complete: no step writes to the array
\* of the published list; the list a call loaded keeps the elements it had when
\* loaded until the call returns, whatever other calls do meanwhile; and the
\* published slice never points to an array a call is still building, and
\* covers the whole of its array.
C12_SnapshotImmutable ==
    [][/\ heap'[internalPkgList.arr] = heap[internalPkgList.arr]
       /\ \A g \in Registrars : Holding(g)' => Deref(reg[g].cur)' = reg[g].seen'
       /\ \A g \in Registrars : Building(g)' => internalPkgList'.arr # reg[g].cp.arr'
       /\ internalPkgList'.len = Len(heap[internalPkgList.arr]')]_vars

\* a call still holds the initial list it loaded while another call has
\* published a longer list
C12_Witness ==
    \E g \in Registrars :
        /\ Holding(g) /\ reg[g].seen = InitPkgs /\ Deref(reg[g].cur) = InitPkgs
        /\ reg[g].cur # internalPkgList
        /\ getInternalPkgs = InitPkgs \o <<PkgB>>

\* the step in which the call of g returns, having registered only prefixes that
\* were already in the list it loaded
RepeatedRegistration(g) ==
    /\ reg[g].pc = "l34" /\ reg'[g].pc = "idle"
    /\ Range(reg[g].pkgs) \subseteq Range(reg[g].seen)

\* C19: a call that registers prefixes already in the list it loaded publishes
\* a list under which isInternalFrame gives, for every frame, the result it gave
\* under the list loaded.
C19_RegistrationIdempotent ==
    [][\A g \in Registrars : RepeatedRegistration(g) =>
          \A f \in StackFrames :
              isInternalFrame(f, getInternalPkgs') <=> isInternalFrame(f, reg[g].seen)]_vars

\* RegisterInternalPackages(PkgA) was called twice, one call after the other
C19_Witness ==
    /\ getInternalPkgs = InitPkgs \o <<PkgA, PkgA>>
    /\ \A g \in Registrars : reg[g].pc = "idle"
    /\ isInternalFrame(FAdapterA, getInternalPkgs)

\* the step in which a call made with no prefixes starts: a call is counted and
\* no goroutine is left inside RegisterInternalPackages by it
EmptyCall == ncalls' = ncalls + 1 /\ reg' = reg

\* C21: RegisterInternalPackages called with no prefixes is a no-op: the call
\* returns at once, changing neither the published slice nor any backing array
\* nor the list getInternalPkgs returns; no call in flight has an empty argument
\* list, and every change of the published slice is the Store of a call that
\* was given at least one prefix.
C21_EmptyRegistrationNoOp ==
    [][/\ EmptyCall => /\ internalPkgList' = internalPkgList
                       /\ heap' = heap
                       /\ getInternalPkgs' = getInternalPkgs
       /\ \A g \in Registrars : reg'[g].pc # "idle" => Len(reg'[g].pkgs) > 0
       /\ internalPkgList' # internalPkgList =>
              \E g \in Registrars : reg[g].pc = "l34" /\ Len(reg[g].pkgs) > 0]_vars

\* two calls have returned, one with PkgA and one with no prefixes: one list
\* was published, and one backing array allocated, after the initial one
C21_Witness ==
    /\ ncalls = 2 /\ \A g \in Registrars : reg[g].pc = "idle"
    /\ registered = {PkgA}
    /\ Len(heap) = 2 /\ getInternalPkgs = InitPkgs \o <<PkgA>>

-----------------------------------------------------------------------------
(* A claim about the classifier, checked under SpecCaller *)

\* file contains "/p@<version>/": "/p@", a version without "/", then "/"
VersionedIn(file, p) ==
    \E i \in 1..(Len(file) - Len(p) - 1) :
        LET k == i + Len(p) + 2
        IN  /\ SubSeq(file, i, k - 1) = "/" \o p \o "@"
            /\ \E j \in (k + 1)..Len(file) :
                  /\ SubSeq(file, j, j) = "/"
                  /\ \A x \in k..(j - 1) : SubSeq(file, x, x) # "/"

\* C20: for the frame a walk examined last, and every prefix p of the list
\* loaded for it: if the frame's file path contains "/p/" or "/p@<version>/",
\* isInternalFrame is true under that list, and the walk did not classify the
\* frame external.
C20_PathUnderPrefixIsInternal ==
    walk.cls # << >> =>
        LET j == Len(walk.cls)
            f == walk.frames[j]
        IN  \A i \in 1..Len(walk.pkgs) :
                LET p == walk.pkgs[i]
                IN  (Contains(f.File, "/" \o p \o "/") \/ VersionedIn(f.File, p)) =>
                        (isInternalFrame(f, walk.pkgs) /\ walk.cls[j] # "external")

\* with both adapters registered, the frames whose files lie under their
\* prefixes, unversioned and versioned, were classified internal although their
\* function names do not start with a prefix
C20_Witness ==
    /\ walk.pc = "done" /\ walk.frames = VendorStack /\ walk.ok /\ Returned = FMain
    /\ walk.cls = <<"internal", "internal", "internal", "internal", "internal", "external">>
    /\ Contains(FVendorB.File, "/" \o PkgB \o "/") /\ VersionedIn(FCmdA.File, PkgA)
    /\ ~HasPrefix(FVendorB.Function, PkgB) /\ ~HasPrefix(FCmdA.Function, PkgA)

-----------------------------------------------------------------------------
(* Claims about callerCore, checked under SpecWrite *)

\* the values minSeverity takes: LevelInfo and the arguments of Verbosity
Severities == VerbLevels \cup {LevelInfo}

\* C15: for an entry whose level is below the wrapped core's level, no stack is
\* captured, no frame is classified and the wrapped core's Write is not called;
\* the capture, the classification and the Write happen only for entries at or
\* above the core's level. Likewise a record for which GlogHandler.Enabled is
\* false is one Handle drops at its first two tests, before it resolves the
\* record's file and without calling the wrapped handler.
C15_RejectedBeforeResolution ==
    /\ (walk.pc # "idle" /\ walk.lvl < walk.core) =>
          (walk.pc = "rejected" /\ walk.frames = << >> /\ walk.cls = << >> /\ ~walk.written)
    /\ (walk.written \/ walk.cls # << >> \/ walk.frames # << >>) => walk.lvl >= walk.core
    /\ \A sev \in Severities, lvl \in RecLevels :
          ~EnabledResult(sev, lvl) => SeverityOutcome(sev, lvl) = "dropped"

\* a Debug entry on a core at Info level
C15_Witness ==
    /\ walk.pc = "rejected" /\ walk.lvl = ZapDebugLevel /\ walk.core = ZapInfoLevel
    /\ walk.frames = << >> /\ ~walk.written

\* C16 (as stated): when the walk finds no frame, callerCore.Write has written
\* the entry to the wrapped core, returns no error unless the core's output
\* fails, and the entry written has no caller (Defined = false).
C16_NotFoundNoCaller ==
    (walk.pc = "done" /\ ~walk.ok) =>
        /\ walk.written
        /\ walk.sink = "ok" => walk.ret = "nil"
        /\ ~walk.ent.Defined

\* C16 (amended): when the walk finds no frame, callerCore.Write has written
\* the entry to the wrapped core and returns that core's result, no error unless
\* the core's output fails; the entry written keeps the caller it arrived with,
\* which is the caller zap.AddCaller computed.
C16_NotFoundKeepsCaller ==
    (walk.pc = "done" /\ ~walk.ok) =>
        /\ walk.written
        /\ walk.ret = CoreWriteResult(walk.sink)
        /\ walk.ent = walk.caller
        /\ walk.ent = ZapCaller(walk.frames)

\* a log call from a test of the logging package: every frame is passed over,
\* and the entry is written with the test's own frame, which zap found
C16_Witness ==
    /\ walk.pc = "done" /\ ~walk.ok /\ walk.frames = PkgTestStack
    /\ walk.written /\ walk.ret = "nil"
    /\ walk.ent.Defined /\ walk.ent.File = FPkgTest.File /\ walk.ent.Line = FPkgTest.Line

\* C17: at most maxDepth frames are captured, classified and indexed; a frame
\* returned is one of the captured frames; and a walk over a stack deeper than
\* maxDepth whose captured frames were all passed over has classified exactly
\* maxDepth frames and ended with found = false and the entry written.
C17_HardCutoff ==
    /\ Len(walk.frames) <= maxDepth /\ Len(walk.cls) <= maxDepth /\ walk.i <= maxDepth
    /\ (walk.pc = "done" /\ walk.ok) =>
          /\ walk.ec.PC \in 1..Len(walk.frames)
          /\ walk.ec = EntryCaller(walk.frames, walk.ec.PC)
          /\ ~Passable(walk.ec.PC)
    /\ (walk.pc = "done" /\ walk.depth > maxDepth /\ ~walk.ok) =>
          (Len(walk.cls) = maxDepth /\ walk.written)
    /\ (walk.pc = "done" /\ walk.depth > maxDepth /\ Len(walk.cls) = maxDepth
          /\ \A j \in 1..maxDepth : Passable(j)) => ~walk.ok

\* a stack whose first application frame is the first one not captured
C17_Witness ==
    /\ walk.pc = "done" /\ walk.depth = maxDepth + 3 /\ Len(walk.frames) = maxDepth
    /\ Len(walk.cls) = maxDepth /\ ~walk.ok /\ walk.written

\* the goroutine of the walk was started by the testing package: the process
\* is a test binary
TestProcess ==
    \E j \in 1..Len(walk.frames) : HasPrefix(walk.frames[j].Function, "testing.")

\* C24: outside a test process, a frame that is neither runtime nor internal
\* and whose file path contains "/testing/" is an ordinary external frame: a
\* walk that examined such a frame returned it as the caller.
C24_TestingSkippedOnlyInTests ==
    (walk.pc = "done" /\ ~TestProcess) =>
        \A j \in 1..Len(walk.cls) :
            (walk.cls[j] = "external" /\ Contains(walk.frames[j].File, "/testing/")) =>
                (walk.ok /\ walk.ec.PC = j)

-----------------------------------------------------------------------------
(* A claim about the classifier, checked under SpecTrimmed *)

\* the shortened package name of a prefix: its final path segment, or the
\* prefix itself when it has no "/"
ShortName(p) ==
    IF LastIndexSlash(p) >= 0 THEN SubSeq(p, LastIndexSlash(p) + 2, Len(p)) ELSE p

\* C25: for the frame a walk examined last, and every prefix p of the list
\* loaded for it with shortened package name m: if the frame's file path is of
\* the bare relative form "m/...", isInternalFrame is true under that list, and
\* the walk did not classify the frame external.
C25_RelativePathIsInternal ==
    walk.cls # << >> =>
        LET j == Len(walk.cls)
            f == walk.frames[j]
        IN  \A i \in 1..Len(walk.pkgs) :
                HasPrefix(f.File, ShortName(walk.pkgs[i]) \o "/") =>
                    (isInternalFrame(f, walk.pkgs) /\ walk.cls[j] # "external")

\* the import path of the package of the function named fn: fn up to the first
\* "." behind its last "/"
PackageOf(fn) ==
    LET cut  == LastIndexSlash(fn) + 1
        rest == SubSeq(fn, cut + 1, Len(fn))
    IN  SubSeq(fn, 1, cut + IndexOf(rest, ".") - 1)

\* package pkg is the package named p or lies below it
PackageUnder(pkg, p) == pkg = p \/ HasPrefix(pkg, p \o "/")

\* frame f belongs to the platform runtime, or to a package of the list pkgs:
\* its function is of such a package, or its file lies in the directory of one
BelongsToInternal(f, pkgs) ==
    \/ PackageUnder(PackageOf(f.Function), "runtime")
    \/ \E i \in 1..Len(pkgs) :
          \/ PackageUnder(PackageOf(f.Function), pkgs[i])
          \/ Contains(f.File, "/" \o pkgs[i] \o "/")
          \/ VersionedIn(f.File, pkgs[i])

\* C30: the frame a walk examined last is classified runtime or internal only
\* if it belongs to the platform runtime, the logging library or a registered
\* package: a frame of another package, whatever its name contains, is
\* classified external.
C30_OnlyInternalFramesSkipped ==
    walk.cls # << >> =>
        LET j == Len(walk.cls)
        IN  ~BelongsToInternal(walk.frames[j], walk.pkgs) => walk.cls[j] = "external"

-----------------------------------------------------------------------------
(* A claim about derived loggers, checked under SpecDerive *)

\* the step in which With or WithFields returns a new logger
Derives == Len(loggers') > Len(loggers) /\ lcall'.op \in {"With", "WithFields"}

\* C22: caller attribution survives derivation. The core of a logger derived by
\* With or WithFields from a logger on a callerCore is again a callerCore, and
\* its fields are the parent's followed by the fields added. Every record
\* written through a logger of this family has had its frames classified by
\* firstExternalCaller, carries the fields of the logger's core, and carries a
\* defined caller: the frame firstExternalCaller returned when it found one.
C22_AttributionSurvivesWith ==
    [][/\ Derives =>
            LET parent  == loggers[lcall'.k].core
                derived == loggers'[lcall'.ret].core
            IN  /\ parent.callerCore => derived.callerCore
                /\ derived.fields = parent.fields \o lcall'.fields
       /\ (walk'.pc = "done" /\ walk'.logger # 0) =>
            /\ walk'.written
            /\ walk'.cls # << >>
            /\ walk'.ctx = loggers'[walk'.logger].core.fields
            /\ walk'.ent.Defined
            /\ walk'.ok => (walk'.ent = walk'.ec /\ walk'.cls[walk'.ec.PC] = "external")]_vars

\* an Info record logged from the application's helper through a logger
\* derived with With("key", "value") from the global logger
C22_Witness ==
    /\ walk.pc = "done" /\ walk.logger = 2 /\ walk.frames = LogStack
    /\ loggers[2].core.fields = <<[Key |-> "key", Val |-> "value"]>>
    /\ loggers[2].level = loggers[1].level
    /\ walk.ctx = <<[Key |-> "key", Val |-> "value"]>>
    /\ walk.ok /\ walk.ent.Defined /\ walk.ent.File = "/app/main.go" /\ walk.ent.Line = 94

-----------------------------------------------------------------------------
(* A claim about the level of a zapLogger, checked under SpecLevel *)

\* the level cell of logger k, which it shares with the loggers derived from it
LevelOfLogger(k) == levels[loggers[k].level]

\* the step in which a call of the kind op returns
Returns(op) == lcall' # lcall /\ lcall'.op = op

\* the step in which Log is called and its record is checked against the core
LogChecks == walk' # walk /\ walk.pc # "loop" /\ walk'.logger # 0

\* C23: once SetLevel(L) was called on a logger or on one sharing its level (the
\* loggers derived with With), Enabled and EnabledLevel return false for every
\* level below L, GetLevel returns L, and a record whose level is below L is
\* rejected when it is logged, not written.
C23_SetLevelTakesEffect ==
    [][/\ \A op \in {"Enabled", "EnabledLevel"} :
            (Returns(op) /\ LevelOfLogger(lcall'.k).set
               /\ lcall'.level < LevelOfLogger(lcall'.k).arg) => ~lcall'.out
       /\ (Returns("GetLevel") /\ LevelOfLogger(lcall'.k).set) =>
            lcall'.ret = LevelOfLogger(lcall'.k).arg
       /\ (LogChecks /\ LevelOfLogger(walk'.logger).set
             /\ walk'.lvl < slogToZapLevel(LevelOfLogger(walk'.logger).arg)) =>
            walk'.pc = "rejected"]_vars

-----------------------------------------------------------------------------
(* Claims about the admission filter, checked under SpecGlog *)

HandleDone == call.op = "Handle" /\ call.pc = "done"

\* the override table of the handler the call in flight is made on
CallMap == vmaps[glog[call.h].vmodules]

\* the basename Handle looks up for the record of the call in flight
CallBase == Base(FileOfPC(call.rpc))

\* C4: a record whose level is at or above the minSeverity Handle read is
\* forwarded to the wrapped handler, whatever its caller file and whatever the
\* override table holds.
C4_SeverityAlwaysForwarded ==
    (HandleDone /\ call.lvl >= call.sev) => call.out = "forwarded"

\* a verbose record at or above minSeverity, forwarded although its file has an
\* override below the record's level
C4_Witness ==
    /\ HandleDone /\ call.lvl >= call.sev /\ call.lvl < LevelInfo
    /\ HasFile(call.rpc) /\ CallBase \in DOMAIN CallMap
    /\ CallMap[CallBase] < call.lvl
    /\ call.out = "forwarded"

\* C5: a verbose record below the minSeverity read, whose file has no override
\* or is unavailable, is forwarded if and only if its level is at most the
\* vdefault Handle read.
C5_DefaultVerbosity ==
    (HandleDone /\ call.lvl < call.sev /\ call.lvl < LevelInfo /\ call.ov = "none") =>
        (call.out = "forwarded" <=> call.lvl <= call.vdef)

\* after Verbosity(Warn), a Debug record without a caller file
C5_Witness ==
    /\ HandleDone /\ cfg.pc = "idle" /\ ~HasFile(call.rpc)
    /\ call.lvl = LevelDebug /\ call.sev = LevelWarn /\ call.vdef = LevelWarn
    /\ call.ov = "none" /\ call.out = "forwarded"

\* the step that ends a Handle call
HandleReturns == call' # call /\ call'.op = "Handle" /\ call'.pc = "done"

\* the record's file has an override when Handle returns
HasOverride == HasFile(call'.rpc) /\ Base(FileOfPC(call'.rpc)) \in DOMAIN CallMap'

\* C6 (as stated): whenever Handle returns for a verbose-range record whose
\* file's basename has an override V, the record was forwarded if and only if
\* its level is at most V.
C6_OverridePrecedence ==
    [][(HandleReturns /\ call'.lvl < LevelInfo /\ HasOverride) =>
         (call'.out = "forwarded" <=> call'.lvl <= CallMap'[CallBase'])]_vars

\* C6 (amended): the same for verbose-range records below minSeverity: whenever
\* Handle returns for a record below LevelInfo and below the minSeverity it
\* read, whose file's basename has an override V, the record was forwarded if
\* and only if its level is at most V, whatever vdefault is.
C6_OverridePrecedenceBelowSeverity ==
    [][(HandleReturns /\ call'.lvl < LevelInfo /\ call'.lvl < call'.sev /\ HasOverride) =>
         (call'.out = "forwarded" <=> call'.lvl <= CallMap'[CallBase'])]_vars

\* a Trace record dropped by its file's override although vdefault admits it
C6_Witness ==
    /\ HandleDone /\ call.lvl = LevelTrace /\ call.lvl < call.sev
    /\ call.ov = "found" /\ call.vthr = LevelDebug /\ call.vdef = LevelWarn
    /\ call.out = "dropped"

\* C7: Enabled(level) is true if and only if level is at or above the
\* minSeverity it read or level is below LevelInfo.
C7_EnabledIff ==
    (call.op = "Enabled" /\ call.pc = "done") =>
        (call.out = "true" <=> (call.lvl >= call.sev \/ call.lvl < LevelInfo))

\* a verbose level below minSeverity passes the pre-check
C7_Witness ==
    /\ call.op = "Enabled" /\ call.pc = "done"
    /\ call.lvl < LevelInfo /\ call.lvl < call.sev /\ call.out = "true"

C9_FreshHandler ==
    (ncfg = 0 /\ HandleDone) => (call.out = "forwarded" <=> call.lvl >= LevelInfo)

\* C13: in every state a log call can observe, the two thresholds of a handler
\* hold the same value: whenever a Handle call has read minSeverity and is about
\* to read vdefault, the handler's minSeverity and vdefault are equal.
C13_ThresholdsAlwaysEqual ==
    (call.op = "Handle" /\ call.pc = "h74") =>
        glog[call.h].minSeverity = glog[call.h].vdefault

\* the step in which Handle looks its file up in the override table (line 79)
LookupStep == call.pc = "h79" /\ call' # call

\* C14: a lookup of Handle made while a Vmodule call runs on the same table
\* does not end the program, and finds the table either as that call found it
\* or as that call will leave it.
C14_TableReadsAtomic ==
    [][(LookupStep /\ cfg.pc = "vm" /\ glog[cfg.h].vmodules = glog[call.h].vmodules) =>
         /\ call'.pc # "fatal"
         /\ CallMap \in {cfg.before, VmoduleLoop(cfg.before, Split(cfg.spec))}]_vars

\* an entry "pattern=level" whose level, the text after the first "=", is an
\* optional sign followed by decimal digits
WellFormed(e) ==
    /\ IndexOf(e, "=") > 0
    /\ LET t == SubSeq(e, IndexOf(e, "=") + 1, Len(e))
           d == IF Len(t) > 0 /\ SubSeq(t, 1, 1) \in {"+", "-"} THEN SubSeq(t, 2, Len(t)) ELSE t
       IN  Len(d) > 0 /\ \A j \in 1..Len(d) : DigitValue(SubSeq(d, j, j)) >= 0

PatternOf(e) == SubSeq(e, 1, IndexOf(e, "=") - 1)

LevelOf(e) == Atoi(SubSeq(e, IndexOf(e, "=") + 1, Len(e))).val

\* the step in which a Vmodule call returns
VmoduleReturns == cfg.pc = "vm" /\ cfg'.pc = "idle"

\* C18: whenever Vmodule(spec) returns, it returns nil; every well-formed entry
\* of spec has its pattern in the table, with its level unless a later
\* well-formed entry names the same pattern; and every pattern no well-formed
\* entry names is in the table exactly if it was before the call, with the level
\* it had.
C18_VmoduleNeverFails ==
    [][VmoduleReturns =>
         LET m  == vmaps'[glog[cfg.h].vmodules]
             es == Split(cfg.spec)
             wf == {i \in 1..Len(es) : WellFormed(es[i])}
         IN  /\ cfg'.ret = "nil"
             /\ \A i \in wf :
                  /\ PatternOf(es[i]) \in DOMAIN m
                  /\ (\A j \in wf : j > i => PatternOf(es[j]) # PatternOf(es[i]))
                        => m[PatternOf(es[i])] = LevelOf(es[i])
             /\ \A k \in (DOMAIN m \cup DOMAIN cfg.before) :
                  (\A i \in wf : PatternOf(es[i]) # k) =>
                      /\ k \in DOMAIN m /\ k \in DOMAIN cfg.before
                      /\ m[k] = cfg.before[k]]_vars

\* Vmodule("x.go=debug,y.go=-4") has returned nil: y.go has its level, x.go has none
C18_Witness ==
    /\ ncfg = 1 /\ cfg.pc = "idle" /\ cfg.ret = "nil"
    /\ DOMAIN vmaps[1] = {"y.go"} /\ vmaps[1]["y.go"] = LevelDebug

\* a step of a Verbosity call, and a step of a Vmodule call
VerbosityRuns == cfg'.pc = "v38" \/ cfg.pc = "v38"
VmoduleRuns == cfg'.pc = "vm" \/ cfg.pc = "vm"

\* C26: the two knobs are independent. A step of Verbosity changes no override
\* table and, of the handlers, nothing but minSeverity and vdefault. A step of
\* Vmodule(spec) changes no handler; it removes no entry from a table, and an
\* entry it adds or overwrites is a well-formed entry of spec with its level.
C26_KnobsIndependent ==
    [][/\ VerbosityRuns =>
            /\ vmaps' = vmaps
            /\ Len(glog') = Len(glog)
            /\ \A h \in Handlers : /\ glog'[h].vmodules = glog[h].vmodules
                                   /\ glog'[h].handler = glog[h].handler
       /\ VmoduleRuns =>
            /\ glog' = glog
            /\ Len(vmaps') = Len(vmaps)
            /\ \A id \in 1..Len(vmaps) :
                 LET es == Split(IF cfg.pc = "vm" THEN cfg.spec ELSE cfg'.spec)
                 IN  /\ DOMAIN vmaps[id] \subseteq DOMAIN vmaps'[id]
                     /\ \A k \in DOMAIN vmaps'[id] :
                          (k \notin DOMAIN vmaps[id] \/ vmaps'[id][k] # vmaps[id][k]) =>
                              \E i \in 1..Len(es) :
                                  /\ WellFormed(es[i]) /\ PatternOf(es[i]) = k
                                  /\ LevelOf(es[i]) = vmaps'[id][k]]_vars

\* Verbosity(Warn) and Vmodule("x.go=5,y.go=-2") have both returned: the
\* thresholds are Warn and the table holds the two entries
C26_Witness ==
    /\ ncfg = 2 /\ cfg.pc = "idle"
    /\ glog[1].minSeverity = LevelWarn /\ glog[1].vdefault = LevelWarn
    /\ DOMAIN vmaps[1] = {"x.go", "y.go"}
    /\ vmaps[1]["x.go"] = 5 /\ vmaps[1]["y.go"] = -2

\* C27: overrides apply to verbose records only: a record at or above LevelInfo
\* and below the minSeverity Handle read is dropped at the severity tests; its
\* file is never looked up in the override table and it is not forwarded,
\* whatever the table holds for the file.
C27_OverrideNeverAdmitsSeverity ==
    (call.op = "Handle" /\ call.lvl >= LevelInfo /\ call.lvl < call.sev) =>
        (call.pc = "done" /\ call.ov = "unread" /\ call.out = "dropped")

\* after Verbosity(Warn), an Info record from x.go is dropped although the
\* override of x.go, 5, is above the record's level
C27_Witness ==
    /\ HandleDone /\ call.lvl = LevelInfo /\ call.sev = LevelWarn
    /\ HasFile(call.rpc) /\ CallBase = "x.go"
    /\ "x.go" \in DOMAIN CallMap /\ CallMap["x.go"] = 5
    /\ call.out = "dropped"

\* C28: the two admission phases are consistent: whenever Handle forwards a
\* record, Enabled is true for the record's level under the minSeverity Handle
\* read; and for every level, Enabled under that minSeverity is true unless the
\* severity tests of Handle drop the level.
C28_PrecheckNeverRejectsAdmitted ==
    /\ (HandleDone /\ call.out = "forwarded") => EnabledResult(call.sev, call.lvl)
    /\ call.op = "Handle" =>
          \A lvl \in RecLevels :
              SeverityOutcome(call.sev, lvl) # "dropped" => EnabledResult(call.sev, lvl)

\* a Debug record below minSeverity, forwarded because of its file's override,
\* at a level Enabled admits
C28_Witness ==
    /\ HandleDone /\ call.out = "forwarded"
    /\ call.lvl = LevelDebug /\ call.lvl < call.sev /\ call.ov = "found"
    /\ call.vthr > call.vdef
    /\ EnabledResult(call.sev, call.lvl)

-----------------------------------------------------------------------------
(* A claim about derived handlers, checked under SpecShared *)

\* the step in which WithAttrs or WithGroup returns the handler it built
DeriveReturns ==
    call.pc \in {"w97", "w108"} /\ call'.pc = "done"

\* the handler a Verbosity call in flight before or after the step is made on
VerbosityOn == IF cfg.pc = "v38" THEN cfg.h ELSE cfg'.h

\* C29: the handler WithAttrs or WithGroup returns has the override table of
\* its parent and a minSeverity and vdefault that its parent had together at
\* some moment of the call; the handlers derived from one another see the same
\* overrides at all times, so a Vmodule call on one changes them for all; and a
\* step of Verbosity changes no handler but the one it is called on.
C29_DerivedSharesTableOnly ==
    [][/\ DeriveReturns =>
            LET derived == glog'[Len(glog')]
                parent  == glog'[call.h]
            IN  /\ <<derived.minSeverity, derived.vdefault>> \in call.held
                /\ derived.vmodules = parent.vmodules
       /\ \A h1, h2 \in DOMAIN glog' :
            vmaps'[glog'[h1].vmodules] = vmaps'[glog'[h2].vmodules]
       /\ VerbosityRuns =>
            \A h \in DOMAIN glog : h # VerbosityOn => glog'[h] = glog[h]]_vars

=============================================================================
